---- MODULE Spec2Model ----
(***************************************************************************)
(* A model of the tnnlr tunnel client: one tunnel session (createTunnel,   *)
(* with authenticateRemote, waitForReady, connectLocal and the Host-header *)
(* transformer) as specification Spec, the pool start-up and the          *)
(* per-slot restart loops (tnnlr, retryAsync, runPersistentTunnel) as      *)
(* specification SpecPool, and the command-line script's race of the       *)
(* termination-signal handler with tnnlr() as specification SpecMain.      *)
(*                                                                         *)
(* Byte strings are sequences of one-character strings ("\n" is LF).  The  *)
(* atom BLK abbreviates a run of BlockSize non-blank, non-LF bytes, so     *)
(* that the 64 KiB cap of waitForReady keeps its real value.               *)
(*                                                                         *)
(* Every action is one Node.js event handler run to completion, together   *)
(* with the promise continuations (microtasks) that it schedules.          *)
(***************************************************************************)
EXTENDS Integers, Sequences, FiniteSets, TLC

\* ---------------------------------------------------------------- bounds
MaxChunks == 3
MaxLocalData == 1
BlockSize == 65536
NSlots == 2
MaxAttempts == 2
MaxRetry == 2

\* ------------------------------------------------------------ byte strings
BLK == "BLK"
WS == {" ", "\t", "\n", "\r"}

Min(S) == CHOOSE x \in S : \A y \in S : x <= y
Max(S) == CHOOSE x \in S : \A y \in S : x >= y

\* Buffer.length of a byte string
RECURSIVE ByteLen(_)
ByteLen(s) ==
  IF s = <<>> THEN 0
  ELSE (IF Head(s) = BLK THEN BlockSize ELSE 1) + ByteLen(Tail(s))

\* String.prototype.trim
Trim(s) ==
  LET I == {i \in 1..Len(s) : s[i] \notin WS}
  IN IF I = {} THEN <<>> ELSE SubSeq(s, Min(I), Max(I))

\* Buffer.indexOf(0x0a), 1-based; 0 stands for -1
IndexOfLF(s) ==
  LET I == {i \in 1..Len(s) : s[i] = "\n"}
  IN IF I = {} THEN 0 ELSE Min(I)

RECURSIVE Flatten(_)
Flatten(ss) == IF ss = <<>> THEN <<>> ELSE Head(ss) \o Flatten(Tail(ss))

IsPrefix(p, s) == Len(p) <= Len(s) /\ SubSeq(s, 1, Len(p)) = p

\* the control words and indicators compared in the source
READY == <<"R","E","A","D","Y">>
PING == <<"P","I","N","G">>
AUTH_OK == <<"A","U","T","H","_","O","K">>
AUTH_SUCCESS == <<"A","U","T","H","_","S","U","C","C","E","S","S">>
AUTH_FAIL == <<"A","U","T","H","_","F","A","I","L">>
PONG == <<"P","O","N","G","\n">>
Cap == 64 * 1024

\* case folding for the /i regexes
Lower(c) ==
  CASE c = "S" -> "s" [] c = "T" -> "t" [] c = "A" -> "a" [] c = "U" -> "u"
    [] c = "O" -> "o" [] c = "K" -> "k" [] c = "E" -> "e" [] c = "R" -> "r"
    [] OTHER -> c

\* the least j >= i with s[j] not whitespace (Len(s)+1 when there is none): \s*
SkipWs(s, i) ==
  LET J == {j \in i..Len(s) : s[j] \notin WS}
  IN IF J = {} THEN Len(s) + 1 ELSE Min(J)

\* whether the literal lit (lower case) occurs in s at position i, ignoring case
LitAt(s, i, lit) ==
  /\ i >= 1
  /\ i + Len(lit) - 1 <= Len(s)
  /\ \A k \in 1..Len(lit) : Lower(s[i + k - 1]) = lit[k]

\* /"status"\s*:\s*"<word>"/i .test(s)
StatusRegex(s, word) ==
  LET key == <<"\"","s","t","a","t","u","s","\"">>
      val == <<"\"">> \o word \o <<"\"">>
  IN \E i \in 1..Len(s) :
       /\ LitAt(s, i, key)
       /\ LET c == SkipWs(s, i + Len(key))
          IN /\ LitAt(s, c, <<":">>)
             /\ LitAt(s, SkipWs(s, c + 1), val)

\* ------------------------------------------------------------------ state
VARIABLES
  secretKey,        \* CreateTunnelOpts.secretKey (NoKey: undefined)
  localHost,        \* CreateTunnelOpts.localHost
  remoteSocket,     \* "connecting", "open", "ending" (end() called), "closed"
  localSocket,      \* "none", "connecting", "open", "ending", "closed"
  pc,               \* position of the async connect callback of createTunnel
  authP,            \* promise of authenticateRemote: idle/pending/resolved/rejected
  readyP,           \* promise of waitForReady: idle/pending/resolved/rejected
  buf,              \* waitForReady's buffer
  postReadyBuffer,  \* the bytes waitForReady resolved with
  piped,            \* the 'connected' handler has built the pipes
  replaced,         \* latch of createHeaderHostTransformer
  promise,          \* the promise createTunnel returns: pending/resolved/rejected
  err,              \* the value it was rejected with
  failedIn,         \* the phase the session was in when it was rejected
  remoteWrites,     \* what was written to the remote socket, one entry per write
  localWrites,      \* what was written to the local socket, one chunk per write
  pipeIn,           \* the chunks that entered the remote->local pipeline
  authErr,          \* the error `await authenticateRemote` threw, if it did
  rx,               \* all the bytes received on the remote socket
  authRx,           \* the bytes delivered to authenticateRemote's onData
  readyRx,          \* the bytes the ready waiter received, up to the LF of READY
  postReady,        \* the bytes received on the remote after the LF of READY
  log,              \* the set of log entries <<level, text>>
  nData,            \* number of 'data' events of the remote socket so far
  nLocalData,       \* number of 'data' events of the local socket so far
  pool,             \* the state of tnnlr() and its slots (specification SpecPool)
  main              \* the state of the command-line script (specification SpecMain)

svars == <<secretKey, localHost, remoteSocket, localSocket, pc, authP, readyP, buf,
           postReadyBuffer, piped, replaced, promise, err, failedIn, remoteWrites,
           localWrites, pipeIn, readyRx, postReady, log, nData, nLocalData,
           authErr, rx, authRx>>
vars == <<svars, pool, main>>

NoKey == "undefined"
SecretKey == "s3cr3t"
LocalHosts == {"localhost", "127.0.0.1", "internal.example"}

\* the characters of a local host name
HostChars(h) ==
  CASE h = "localhost" -> <<"l","o","c","a","l","h","o","s","t">>
    [] h = "127.0.0.1" -> <<"1","2","7",".","0",".","0",".","1">>
    [] OTHER -> <<"i","n","t",".","e","x">>

\* the session's state as one record, so that handlers compose
Cur ==
  [secretKey |-> secretKey, localHost |-> localHost, remoteSocket |-> remoteSocket,
   localSocket |-> localSocket, pc |-> pc, authP |-> authP, readyP |-> readyP,
   buf |-> buf, postReadyBuffer |-> postReadyBuffer, piped |-> piped,
   replaced |-> replaced, promise |-> promise, err |-> err, failedIn |-> failedIn,
   remoteWrites |-> remoteWrites, localWrites |-> localWrites, pipeIn |-> pipeIn,
   log |-> log, authErr |-> authErr]

Becomes(s) ==
  /\ secretKey' = s.secretKey
  /\ localHost' = s.localHost
  /\ remoteSocket' = s.remoteSocket
  /\ localSocket' = s.localSocket
  /\ pc' = s.pc
  /\ authP' = s.authP
  /\ readyP' = s.readyP
  /\ buf' = s.buf
  /\ postReadyBuffer' = s.postReadyBuffer
  /\ piped' = s.piped
  /\ replaced' = s.replaced
  /\ promise' = s.promise
  /\ err' = s.err
  /\ failedIn' = s.failedIn
  /\ remoteWrites' = s.remoteWrites
  /\ localWrites' = s.localWrites
  /\ pipeIn' = s.pipeIn
  /\ log' = s.log
  /\ authErr' = s.authErr

\* ------------------------------------------------------- small operations
\* logger.<level>(text)
Log(s, level, text) == [s EXCEPT !.log = @ \cup {<<level, text>>}]

\* the phase of section 3's state machine the session is in
PhaseOf(s) ==
  CASE s.pc = "dial" -> "DIAL"
    [] s.pc = "auth" -> "AUTH"
    [] s.pc = "ready" -> "AWAIT_READY"
    [] s.pc = "local" -> IF s.piped THEN "SPLICING" ELSE "LOCAL_DIAL"
    [] OTHER -> "FAILED"

\* reject(e) of createTunnel's promise; a settled promise stays as it is
Reject(s, e) ==
  IF s.promise = "pending"
  THEN [s EXCEPT !.promise = "rejected", !.err = e, !.failedIn = PhaseOf(s)]
  ELSE s

\* resolve() of createTunnel's promise
Resolve(s) == IF s.promise = "pending" THEN [s EXCEPT !.promise = "resolved"] ELSE s

\* emitter.emit('error', e): the one listener rejects the promise
EmitError(s, e) == Reject(s, e)

\* remoteSocket.end()
RemoteEnd(s) ==
  IF s.remoteSocket \in {"connecting", "open"}
  THEN [s EXCEPT !.remoteSocket = "ending"] ELSE s

\* localSocket.end()
LocalEnd(s) ==
  IF s.localSocket \in {"connecting", "open"}
  THEN [s EXCEPT !.localSocket = "ending"] ELSE s

\* socket.write(frame) on the remote socket
RemoteWrite(s, frame) ==
  IF s.remoteSocket = "open" THEN [s EXCEPT !.remoteWrites = Append(@, frame)] ELSE s

\* isErrnoException: every error the sockets emit is an Error whose errno, code,
\* path and syscall are of the expected types or undefined
isErrnoException(e) == e.isError

SocketError(code) == [isError |-> TRUE, code |-> code, message |-> code]
NewError(message) == [isError |-> TRUE, code |-> "undefined", message |-> message]

\* ------------------------------------------- createHeaderHostTransformer
\* whether /\r\n[Hh]ost: \S+/ matches chunk c at position i
HostMatchAt(c, i) ==
  /\ i + 8 <= Len(c)
  /\ c[i] = "\r" /\ c[i + 1] = "\n"
  /\ c[i + 2] \in {"H", "h"}
  /\ c[i + 3] = "o" /\ c[i + 4] = "s" /\ c[i + 5] = "t"
  /\ c[i + 6] = ":" /\ c[i + 7] = " "
  /\ c[i + 8] \notin WS

\* position of the first match in c, 0 when there is none
FirstHostMatch(c) ==
  LET M == {i \in 1..Len(c) : HostMatchAt(c, i)}
  IN IF M = {} THEN 0 ELSE Min(M)

\* the last position of the greedy \S+ that starts at position v
RunEnd(c, v) ==
  Max({j \in v..Len(c) : \A k \in v..j : c[k] \notin WS})

\* String.replace(/(\r\n[Hh]ost: )\S+/, $1 + host): the first match only
ReplaceHost(c, host) ==
  LET m == FirstHostMatch(c)
  IN IF m = 0 THEN c
     ELSE SubSeq(c, 1, m + 7) \o HostChars(host) \o SubSeq(c, RunEnd(c, m + 8) + 1, Len(c))

\* a transformer whose latch is never set: every chunk is searched
Transform_NoLatch(isReplaced, chunk, host) ==
  [out |-> ReplaceHost(chunk, host), replaced |-> FALSE]

\* transform(chunk): what is emitted, and the latch afterwards
Transform(isReplaced, chunk, host) ==
  IF isReplaced
  THEN [out |-> chunk, replaced |-> TRUE]
  ELSE [out |-> ReplaceHost(chunk, host), replaced |-> FirstHostMatch(chunk) # 0]

\* the condition under which the 'connected' handler inserts the transformer
UseTransformer(h) == h # "localhost" /\ h # "127.0.0.1"

\* ------------------------------------------------------ the async callback
\* connectLocal(...) as called by createTunnel: net.connect, listeners registered
ConnectLocal(s) == [s EXCEPT !.localSocket = "connecting"]

\* after `await waitForReady` has thrown: the catch block
AfterReadyRejected(s, e) ==
  LET s1 == Log(s, "error", <<"Did not receive READY from remote: ", e.message>>)
      s2 == RemoteEnd(EmitError(s1, e))
  IN [s2 EXCEPT !.pc = "returned"]

\* after `await waitForReady` has resolved with remainder
AfterReadyResolved(s, remainder) ==
  LET s1 == Log([s EXCEPT !.postReadyBuffer = remainder], "debug",
                <<"Received READY from remote">>)
  IN [ConnectLocal(s1) EXCEPT !.pc = "local"]

\* waitForReady(socket): a fresh buffer and the three listeners
WaitForReady(s) == [s EXCEPT !.readyP = "pending", !.buf = <<>>, !.pc = "ready"]

\* the catch block without its `return`: the callback goes on to the ready wait
AfterAuthRejected_NoReturn(s, e) ==
  WaitForReady(RemoteEnd(EmitError(
    Log([s EXCEPT !.authErr = e], "error", <<"Remote authentication failed">>), e)))

\* after `await authenticateRemote` has thrown: the catch block
AfterAuthRejected(s, e) ==
  LET s1 == Log([s EXCEPT !.authErr = e], "error", <<"Remote authentication failed">>)
      s2 == RemoteEnd(EmitError(s1, e))
  IN [s2 EXCEPT !.pc = "returned"]

\* after `await authenticateRemote` has resolved
AfterAuthResolved(s) ==
  WaitForReady(Log(s, "info", <<"Remote authentication succeeded">>))

\* JSON.stringify({ type: 'auth', key: secretKey }) + '\n'
AuthPayload(key) == <<"{\"type\":\"auth\",\"key\":\"", key, "\"}", "\n">>

\* authenticateRemote without its `if (!secretKey) return;`
AuthenticateRemote_NoSkip(s) ==
  LET payload == AuthPayload(s.secretKey)
      s1 == Log([s EXCEPT !.authP = "pending", !.pc = "auth"], "debug",
                <<"Sending authentication payload to remote: ">> \o Trim(payload))
  IN RemoteWrite(s1, payload)

\* authenticateRemote(socket, secretKey), up to its first suspension
AuthenticateRemote(s) ==
  IF s.secretKey = NoKey
  THEN AfterAuthResolved([s EXCEPT !.authP = "resolved", !.pc = "auth"])
  ELSE LET payload == AuthPayload(s.secretKey)
           s1 == Log([s EXCEPT !.authP = "pending", !.pc = "auth"], "debug",
                     <<"Sending authentication payload to remote: ">> \o Trim(payload))
       IN RemoteWrite(s1, payload)

\* authenticateRemote whose cleanup() is not called on success: the timer and
\* the listeners stay
AuthListening_NoCleanup(s) == s.authP \in {"pending", "resolved"}

\* authenticateRemote's timer is armed and its onData, onError and onClose are
\* registered: from the registration until cleanup() runs as the promise settles
AuthListening(s) == s.authP = "pending"

\* waitForReady whose cleanup() is not called on READY: the listeners stay
ReadyListening_NoCleanup(s) == s.readyP \in {"pending", "resolved"}

\* waitForReady's onData, onError and onClose are registered: from the
\* registration until cleanup() runs as the promise settles
ReadyListening(s) == s.readyP = "pending"

\* onData of authenticateRemote
AuthOnData(s, chunk) ==
  LET t == Trim(chunk)
      s1 == Log(s, "debug", <<"Received data from remote: ">> \o t)
  IN IF t = AUTH_OK \/ t = AUTH_SUCCESS \/ StatusRegex(t, <<"o","k">>)
     THEN AfterAuthResolved([s1 EXCEPT !.authP = "resolved"])
     ELSE IF t = AUTH_FAIL \/ StatusRegex(t, <<"e","r","r","o","r">>)
     THEN AfterAuthRejected([s1 EXCEPT !.authP = "rejected"],
                            NewError("Authentication failed"))
     ELSE s1

\* the while loop of waitForReady's onData, on the buffer s.buf
RECURSIVE ReadyLoop(_)
ReadyLoop(s) ==
  LET nlIndex == IndexOfLF(s.buf)
  IN IF nlIndex = 0 THEN s
     ELSE LET line == Trim(SubSeq(s.buf, 1, nlIndex - 1))
              remainder == SubSeq(s.buf, nlIndex + 1, Len(s.buf))
              s1 == Log(s, "debug", <<"Received control line from remote: ">> \o line)
          IN IF line = READY
             THEN AfterReadyResolved([s1 EXCEPT !.readyP = "resolved"], remainder)
             ELSE IF line = PING
             THEN ReadyLoop([RemoteWrite(Log(s1, "debug", <<"Responding to PING with PONG">>),
                                         PONG)
                             EXCEPT !.buf = remainder])
             ELSE IF ByteLen(s.buf) > Cap
             THEN AfterReadyRejected([s1 EXCEPT !.readyP = "rejected"],
                                     NewError("Unexpected data before READY"))
             ELSE s1

\* onData of waitForReady
ReadyOnData(s, chunk) == ReadyLoop([s EXCEPT !.buf = @ \o chunk])

\* ------------------------------------------- listeners of createTunnel
NonWord == WS \cup {"/", ":", ".", "\"", "{", "}", ",", "-"}

\* data.toString().match(/^(\w+) (\S+)/): <<method, path>>, or <<>> for no match
RequestLine(c) ==
  LET W == {k \in 1..Len(c) : \A j \in 1..k : c[j] \notin NonWord}
  IN IF W = {} THEN <<>>
     ELSE LET k == Max(W)
          IN IF k + 2 <= Len(c) /\ c[k + 1] = " " /\ c[k + 2] \notin WS
             THEN <<SubSeq(c, 1, k), SubSeq(c, k + 2, RunEnd(c, k + 2))>>
             ELSE <<>>

\* remoteSocket.on('data'): log, then onRequest (tnnlr's callback logs the request)
TunnelOnData(s, chunk) ==
  LET s1 == Log(s, "debug", <<"Received data from tunnel: ">> \o chunk)
      m == RequestLine(chunk)
  IN IF m # <<>>
     THEN Log(s1, "info", <<"Received request: ">> \o m[1] \o <<" ">> \o m[2])
     ELSE s1

\* the 'data' listener that stream.pipe(localSocket) puts on the remote socket
PipeOnData(s, chunk) ==
  IF ~(s.piped /\ s.localSocket = "open") THEN s
  ELSE IF UseTransformer(s.localHost)
  THEN LET x == Transform(s.replaced, chunk, s.localHost)
       IN [s EXCEPT !.pipeIn = Append(@, chunk), !.localWrites = Append(@, x.out),
                    !.replaced = x.replaced]
  ELSE [s EXCEPT !.pipeIn = Append(@, chunk), !.localWrites = Append(@, chunk)]

\* remoteSocket.on('error')
TunnelOnError(s, e) ==
  IF ~isErrnoException(e)
  THEN Log(Log(s, "error", <<"Unknown error on remote socket:">>), "error", <<e.message>>)
  ELSE IF e.code = "ECONNREFUSED"
  THEN RemoteEnd(Reject(Log(s, "error", <<"Connection refused by the server">>),
                        NewError("Connection refused by the server")))
  ELSE Reject(RemoteEnd(Log(s, "error", <<"Socket error (", e.code, "): ", e.message>>)), e)

\* remoteSocket.on('close')
TunnelOnClose(s) == Resolve(Log(s, "info", <<"Tunnel connection closed">>))

\* localEmitter.on('connected')
LocalOnConnected(s) ==
  LET s1 == IF UseTransformer(s.localHost)
            THEN Log(s, "debug", <<"transform Host header to ", s.localHost>>)
            ELSE s
  IN [s1 EXCEPT !.piped = TRUE, !.replaced = FALSE]

\* an 'error' handler that logs and ends the remote socket but does not emit
LocalOnError_NoEmit(s, e) ==
  IF ~isErrnoException(e)
  THEN Log(Log(s, "error", <<"Unknown error on local socket:">>), "error", <<e.message>>)
  ELSE RemoteEnd(IF e.code = "ECONNREFUSED"
                 THEN Log(s, "error", <<"Connection refused by the local server">>)
                 ELSE Log(s, "error", <<"Local socket error (", e.code, "): ", e.message>>))

\* localEmitter.on('error')
LocalOnError(s, e) ==
  IF ~isErrnoException(e)
  THEN Log(Log(s, "error", <<"Unknown error on local socket:">>), "error", <<e.message>>)
  ELSE LET s1 == IF e.code = "ECONNREFUSED"
                 THEN Log(s, "error", <<"Connection refused by the local server">>)
                 ELSE Log(s, "error", <<"Local socket error (", e.code, "): ", e.message>>)
       IN EmitError(RemoteEnd(s1), e)

\* ---------------------------------------- tnnlr, retryAsync, the slots
\* the endpoint record getTunnelEndpoint returns
Endpoint == [url |-> "https://t.example", port |-> "4000", secret_key |-> SecretKey]

\* JSON.stringify(tunnelEndpoint)
EndpointJson(ep) ==
  <<"{\"url\":\"", ep.url, "\",\"port\":", ep.port, ",\"secret_key\":\"", ep.secret_key, "\"}">>

\* options.retry || 1
Retries(retry) == IF retry = 0 THEN 1 ELSE retry

PLog(p, level, text) == [p EXCEPT !.log = @ \cup {<<level, text>>}]

\* how a session of a slot can end: createTunnel's promise resolved, or rejected
\* with one of the errors a session produces
SessionOutcomes ==
  {"resolved", "Authentication timed out", "Authentication failed",
   "Connection refused by the server", "Unexpected data before READY", "ECONNREFUSED"}

AttemptText(n) == CASE n = 0 -> "0" [] n = 1 -> "1" [] n = 2 -> "2" [] n = 3 -> "3"
                    [] n = 4 -> "4" [] OTHER -> "n"

\* tnnlr(options) up to its first suspension: the first getTunnelEndpoint call
\* made by retryAsync is in flight
PoolInit(retry) ==
  [pc |-> "acquiring", retry |-> retry, attempt |-> 0, calls |-> 1, sleeps |-> 0,
   promise |-> "pending", log |-> {<<"info", <<"Tunneling to">>>>},
   slots |-> [i \in 1..NSlots |->
               [attempt |-> 0, started |-> 0, settled |-> 0, running |-> FALSE]]]

\* a loop head without `attempt += 1`
SlotStart_NoIncrement(p, i) ==
  [PLog(p, "info", <<"Starting tunnel ", AttemptText(i), " attempt ",
                     AttemptText(p.slots[i].attempt)>>)
   EXCEPT !.slots[i].started = @ + 1, !.slots[i].running = TRUE]

\* the top of runPersistentTunnel's loop: attempt += 1, log, createTunnel(opts)
SlotStart(p, i) ==
  LET n == p.slots[i].attempt + 1
  IN [PLog([p EXCEPT !.slots[i].attempt = n], "info",
           <<"Starting tunnel ", AttemptText(i), " attempt ", AttemptText(n)>>)
      EXCEPT !.slots[i].started = @ + 1, !.slots[i].running = TRUE]

\* a loop whose catch block rethrows: a rejected session ends the slot, and with
\* it Promise.all
SlotAfterSession_Rethrow(p, i, outcome) ==
  LET p1 == [p EXCEPT !.slots[i].settled = @ + 1, !.slots[i].running = FALSE]
  IN IF outcome = "resolved"
     THEN SlotStart(p1, i)
     ELSE [p1 EXCEPT !.promise = "rejected"]

\* runPersistentTunnel after `await createTunnel(opts)`: the try or the catch
\* branch, then the next turn of the loop
SlotAfterSession(p, i, outcome) ==
  LET n == p.slots[i].attempt
      p1 == [p EXCEPT !.slots[i].settled = @ + 1, !.slots[i].running = FALSE]
      p2 == IF outcome = "resolved"
            THEN PLog(p1, "warn", <<"Tunnel ", AttemptText(i), " attempt ", AttemptText(n),
                                    " finished. Restarting...">>)
            ELSE PLog(PLog(p1, "error", <<"Tunnel attempt ", AttemptText(n), " errored">>),
                      "error", <<outcome>>)
  IN SlotStart(p2, i)

RECURSIVE StartSlots(_, _)
StartSlots(p, i) == IF i > NSlots THEN p ELSE StartSlots(SlotStart(p, i), i + 1)

\* tnnlr after `await retryAsync(...)`: log the endpoint, start the slots
TnnlrAfterEndpoint(p, ep) ==
  LET p1 == PLog(p, "debug", <<"Obtained tunnel endpoint: ">> \o EndpointJson(ep))
      p2 == StartSlots(p1, 1)
  IN PLog([p2 EXCEPT !.pc = "running"], "info", <<"Tunnel established to ", ep.url>>)

\* the catch block of retryAsync, after fn() has thrown
RetryAsyncCatch(p, retries) ==
  LET n == p.attempt + 1
  IN IF n > retries
     THEN [p EXCEPT !.attempt = n, !.pc = "failed", !.promise = "rejected"]
     ELSE PLog([p EXCEPT !.attempt = n, !.pc = "sleeping"], "warn",
               <<"Attempt ", AttemptText(n), " failed. Retrying">>)

\* ------------------------------------------------ the command-line script
\* the delay of setTimeout(resolve, 5000), in ms
Grace == 5000

\* tnnlr() called as a library: there is no script
MainNone ==
  [pc |-> "none", aborted |-> FALSE, graceTimer |-> "unset", graceMs |-> Grace,
   exitCode |-> "none", log |-> {}]

\* the script up to `await Promise.race([...])`: the options are valid, ON_DEATH
\* has registered the signal handler and tnnlr() has been called
MainInit ==
  [MainNone EXCEPT !.pc = "racing",
                   !.log = {<<"info", <<"Starting tunnel to">>>>,
                            <<"info", <<"Retry attempts">>>>}]

\* the process is running
Alive == main.pc \in {"none", "racing"}

\* the callback given to ON_DEATH: log, abort, arm the timer, and the finally
\* block's process.exit(0)
OnDeath(m, signal) ==
  LET m1 == [m EXCEPT !.log = @ \cup {<<"info", <<"Termination signal ", signal,
                                        " received - shutting down gracefully">>>>}]
      m2 == [m1 EXCEPT !.aborted = TRUE]
      m3 == [m2 EXCEPT !.graceTimer = "armed"]
  IN [m3 EXCEPT !.pc = "exited", !.exitCode = "0"]

\* `await Promise.race([...])` after a step of tnnlr(): a rejection of tnnlr's
\* promise rejects the race and the module's top-level await, and node exits
\* with code 1
ScriptAfter(m, p) ==
  IF m.pc = "racing" /\ p.promise = "rejected"
  THEN [m EXCEPT !.pc = "crashed", !.exitCode = "1"]
  ELSE m

\* a termination signal arrives
Signal(signal) ==
  /\ main.pc = "racing"
  /\ main' = OnDeath(main, signal)
  /\ UNCHANGED <<svars, pool>>

\* getTunnelEndpoint returns the endpoint
AcquireSucceeds ==
  /\ Alive
  /\ pool.pc = "acquiring"
  /\ pool' = TnnlrAfterEndpoint(
               PLog(pool, "debug", <<"Response data:[object Object]">>), Endpoint)
  /\ main' = ScriptAfter(main, pool')
  /\ UNCHANGED svars

\* getTunnelEndpoint throws
AcquireFails ==
  /\ Alive
  /\ pool.pc = "acquiring"
  /\ pool' = RetryAsyncCatch(
               PLog(PLog(pool, "error", <<"Error fetching tunnel endpoint:">>),
                    "error", <<"AxiosError">>),
               Retries(pool.retry))
  /\ main' = ScriptAfter(main, pool')
  /\ UNCHANGED svars

\* sleep(delayMs) of retryAsync is over: the next call of fn()
SleepDone ==
  /\ Alive
  /\ pool.pc = "sleeping"
  /\ pool' = [pool EXCEPT !.pc = "acquiring", !.calls = @ + 1, !.sleeps = @ + 1]
  /\ main' = ScriptAfter(main, pool')
  /\ UNCHANGED svars

\* the session of slot i settles
SessionSettles(i, outcome) ==
  /\ Alive
  /\ pool.pc = "running"
  /\ pool.slots[i].running
  /\ pool.slots[i].attempt < MaxAttempts
  /\ pool' = SlotAfterSession(pool, i, outcome)
  /\ main' = ScriptAfter(main, pool')
  /\ UNCHANGED svars

\* --------------------------------------------------------------- inputs
\* what the remote may send in one 'data' event
RemoteChunks ==
  { AUTH_OK \o <<"\n">>,
    AUTH_OK \o <<"\n">> \o PING \o <<"\n">>,
    AUTH_FAIL \o <<"\n">>,
    PING \o <<"\n">>,
    READY \o <<"\n">>,
    READY \o <<"\n", "r", "1">>,
    <<"x", "\n">>,
    <<BLK>>,
    <<"G", " ", "/">>,
    <<"\r","\n","H","o","s","t",":"," ","p">>,
    <<"\r","\n","h","o","s","t",":"," ","q","\r","\n","H","o","s","t",":"," ","p">> }

\* what the local server may send in one 'data' event
LocalChunks == { <<"o", "k">> }

NoError == [isError |-> FALSE, code |-> "undefined", message |-> ""]

\* createTunnel(opts) up to its return: the socket is being dialled, the 'data',
\* 'error' and 'close' listeners and the emitter's 'error' listener are registered
Init ==
  /\ secretKey \in {NoKey, SecretKey}
  /\ localHost \in LocalHosts
  /\ remoteSocket = "connecting"
  /\ localSocket = "none"
  /\ pc = "dial"
  /\ authP = "idle"
  /\ readyP = "idle"
  /\ buf = <<>>
  /\ postReadyBuffer = <<>>
  /\ piped = FALSE
  /\ replaced = FALSE
  /\ promise = "pending"
  /\ err = NoError
  /\ failedIn = "none"
  /\ remoteWrites = <<>>
  /\ localWrites = <<>>
  /\ pipeIn = <<>>
  /\ authErr = NoError
  /\ rx = <<>>
  /\ authRx = <<>>
  /\ readyRx = <<>>
  /\ postReady = <<>>
  /\ log = {}
  /\ nData = 0
  /\ nLocalData = 0
  /\ pool = PoolInit(1)
  /\ main = MainNone

\* ------------------------------------------------- events of the session
\* the connect callback of net.createConnection
RemoteConnect ==
  /\ remoteSocket = "connecting"
  /\ Becomes(AuthenticateRemote(
       Log([Cur EXCEPT !.remoteSocket = "open"], "info", <<"Connected to tunnel">>)))
  /\ UNCHANGED <<rx, authRx, readyRx, postReady, nData, nLocalData, pool, main>>

\* a 'data' event of the remote socket: createTunnel's listener, then the
\* waiter's, then the pipe's, in the order they were registered
RemoteData(chunk) ==
  /\ remoteSocket \in {"open", "ending"}
  /\ nData < MaxChunks
  /\ LET s1 == TunnelOnData(Cur, chunk)
         sa == IF AuthListening(Cur) THEN AuthOnData(s1, chunk) ELSE s1
         s2 == IF ReadyListening(Cur) THEN ReadyOnData(sa, chunk) ELSE sa
         s3 == PipeOnData(s2, chunk)
         pre == SubSeq(chunk, 1, Len(chunk) - Len(s2.postReadyBuffer))
     IN /\ Becomes(s3)
        /\ rx' = rx \o chunk
        /\ authRx' = IF AuthListening(Cur) THEN authRx \o chunk ELSE authRx
        /\ readyRx' = IF ~ReadyListening(Cur) THEN readyRx
                      ELSE IF s2.readyP = "resolved" THEN readyRx \o pre
                      ELSE readyRx \o chunk
        /\ postReady' = IF readyP = "resolved" THEN postReady \o chunk
                        ELSE IF s2.readyP = "resolved" THEN s2.postReadyBuffer
                        ELSE postReady
  /\ nData' = nData + 1
  /\ UNCHANGED <<nLocalData, pool, main>>

\* an 'error' event of the remote socket, and the 'close' event that follows it
\* in the same tick; the waiter's rejection continues after both
RemoteError(code) ==
  /\ remoteSocket # "closed"
  /\ code = "ECONNREFUSED" => remoteSocket = "connecting"
  /\ LET e == SocketError(code)
         s1 == TunnelOnError(Cur, e)
         s2 == IF AuthListening(Cur) THEN [s1 EXCEPT !.authP = "rejected"]
               ELSE IF ReadyListening(Cur) THEN [s1 EXCEPT !.readyP = "rejected"]
               ELSE s1
         s3 == TunnelOnClose([s2 EXCEPT !.remoteSocket = "closed"])
         s4 == IF AuthListening(Cur) THEN AfterAuthRejected(s3, e)
               ELSE IF ReadyListening(Cur) THEN AfterReadyRejected(s3, e)
               ELSE s3
     IN Becomes(s4)
  /\ UNCHANGED <<rx, authRx, readyRx, postReady, nData, nLocalData, pool, main>>

\* the remote peer closes: 'end' (the pipe ends the local socket), then 'close'
\* (createTunnel's listener first, then the waiter's onClose)
RemoteClose ==
  /\ remoteSocket \in {"open", "ending"}
  /\ LET s1 == IF piped THEN LocalEnd(Cur) ELSE Cur
         s2 == TunnelOnClose([s1 EXCEPT !.remoteSocket = "closed"])
         s3 == IF AuthListening(Cur)
               THEN AfterAuthRejected([s2 EXCEPT !.authP = "rejected"],
                                      NewError("Socket closed before authentication"))
               ELSE IF ReadyListening(Cur)
               THEN AfterReadyRejected([s2 EXCEPT !.readyP = "rejected"],
                                       NewError("Socket closed before READY"))
               ELSE s2
     IN Becomes(s3)
  /\ UNCHANGED <<rx, authRx, readyRx, postReady, nData, nLocalData, pool, main>>

\* the timer of authenticateRemote fires
AuthTimeout ==
  /\ AuthListening(Cur)
  /\ Becomes(AfterAuthRejected([Cur EXCEPT !.authP = "rejected"],
                               NewError("Authentication timed out")))
  /\ UNCHANGED <<rx, authRx, readyRx, postReady, nData, nLocalData, pool, main>>

\* the 'connect' event of the local socket
LocalConnected ==
  /\ localSocket = "connecting"
  /\ Becomes(LocalOnConnected(
       Log([Cur EXCEPT !.localSocket = "open"], "info",
           <<"Connected to local server at ", localHost>>)))
  /\ UNCHANGED <<rx, authRx, readyRx, postReady, nData, nLocalData, pool, main>>

\* a 'data' event of the local socket: connectLocal's listener, then the pipe's
LocalData(chunk) ==
  /\ localSocket \in {"open", "ending"}
  /\ nLocalData < MaxLocalData
  /\ LET s1 == Log(Cur, "info", <<"Received data from local server:">> \o chunk)
     IN Becomes(IF piped THEN RemoteWrite(s1, chunk) ELSE s1)
  /\ nLocalData' = nLocalData + 1
  /\ UNCHANGED <<rx, authRx, readyRx, postReady, nData, pool, main>>

\* the 'close' listeners of the local socket
LocalOnClose(s, hadError) ==
  LET s1 == Log([s EXCEPT !.localSocket = "closed"], "info", <<"Local connection closed">>)
  IN IF s.piped
     THEN Log(s1, "debug", <<"local connection closed [", hadError, "]">>)
     ELSE s1

\* an 'error' event of the local socket (connectLocal's listener emits and ends),
\* and the 'close' event that follows it
LocalError(code) ==
  /\ localSocket \in {"connecting", "open", "ending"}
  /\ code = "ECONNREFUSED" => localSocket = "connecting"
  /\ Becomes(LocalOnClose(LocalEnd(LocalOnError(Cur, SocketError(code))), "true"))
  /\ UNCHANGED <<rx, authRx, readyRx, postReady, nData, nLocalData, pool, main>>

\* the local server closes: 'end' (the pipe ends the remote socket), then 'close'
LocalClose ==
  /\ localSocket \in {"open", "ending"}
  /\ Becomes(LocalOnClose(IF piped THEN RemoteEnd(Cur) ELSE Cur, "false"))
  /\ UNCHANGED <<rx, authRx, readyRx, postReady, nData, nLocalData, pool, main>>

Next ==
  \/ RemoteConnect
  \/ \E chunk \in RemoteChunks : RemoteData(chunk)
  \/ \E code \in {"ECONNREFUSED", "ECONNRESET"} : RemoteError(code)
  \/ RemoteClose
  \/ AuthTimeout
  \/ LocalConnected
  \/ \E chunk \in LocalChunks : LocalData(chunk)
  \/ \E code \in {"ECONNREFUSED", "ECONNRESET"} : LocalError(code)
  \/ LocalClose

Spec == Init /\ [][Next]_vars

\* no session of this module's createTunnel is running
SessionIdle ==
  /\ secretKey = SecretKey
  /\ localHost = "localhost"
  /\ remoteSocket = "connecting"
  /\ localSocket = "none"
  /\ pc = "dial"
  /\ authP = "idle"
  /\ readyP = "idle"
  /\ buf = <<>>
  /\ postReadyBuffer = <<>>
  /\ piped = FALSE
  /\ replaced = FALSE
  /\ promise = "pending"
  /\ err = NoError
  /\ failedIn = "none"
  /\ remoteWrites = <<>>
  /\ localWrites = <<>>
  /\ pipeIn = <<>>
  /\ authErr = NoError
  /\ rx = <<>>
  /\ authRx = <<>>
  /\ readyRx = <<>>
  /\ postReady = <<>>
  /\ log = {}
  /\ nData = 0
  /\ nLocalData = 0

\* the pool: tnnlr() with options.retry in 0..MaxRetry and NSlots connections
InitPool ==
  /\ SessionIdle
  /\ \E retry \in 0..MaxRetry : pool = PoolInit(retry)
  /\ main = MainNone

NextPool ==
  \/ AcquireSucceeds
  \/ AcquireFails
  \/ SleepDone
  \/ \E i \in 1..NSlots : \E outcome \in SessionOutcomes : SessionSettles(i, outcome)

SpecPool == InitPool /\ [][NextPool]_vars

\* the script: the race of the signal handler's promise with tnnlr()
InitMain ==
  /\ SessionIdle
  /\ \E retry \in 0..MaxRetry : pool = PoolInit(retry)
  /\ main = MainInit

NextMain ==
  \/ \E signal \in {"SIGINT", "SIGTERM"} : Signal(signal)
  \/ AcquireSucceeds
  \/ AcquireFails
  \/ SleepDone
  \/ \E i \in 1..NSlots : \E outcome \in SessionOutcomes : SessionSettles(i, outcome)

SpecMain == InitMain /\ [][NextMain]_vars

\* ------------------------------------------------------------- properties
ToLocal == Flatten(localWrites)

IsSuffix(p, s) == Len(p) <= Len(s) /\ SubSeq(s, Len(s) - Len(p) + 1, Len(s)) = p

\* what the pipeline makes of the residue when it is the first chunk to enter it
PipedResidue ==
  IF UseTransformer(localHost) THEN ReplaceHost(postReadyBuffer, localHost)
  ELSE postReadyBuffer

\* C1: once the pipes are built (the session has reached splicing), the residue
\* that waitForReady returned is the first thing written to the local socket.
C1_ResidueDeliveredFirst == piped => IsPrefix(PipedResidue, ToLocal)

\* C2: without a Host rewrite, what was written to the local socket is a prefix
\* of residue ++ (bytes received after READY), and is all of it while the local
\* socket is connected and open.
C2_ByteConservation ==
  (~UseTransformer(localHost) /\ piped) =>
     /\ IsPrefix(ToLocal, postReady)
     /\ localSocket = "open" => ToLocal = postReady

\* the number of complete lines of s that trim to PING
RECURSIVE PingLines(_)
PingLines(s) ==
  LET nl == IndexOfLF(s)
  IN IF nl = 0 THEN 0
     ELSE (IF Trim(SubSeq(s, 1, nl - 1)) = PING THEN 1 ELSE 0)
          + PingLines(SubSeq(s, nl + 1, Len(s)))

NumPongs == Cardinality({i \in 1..Len(remoteWrites) : remoteWrites[i] = PONG})

\* C3: every PING line the ready waiter has received before READY has been
\* answered by exactly one PONG, and only bytes received after READY enter the
\* pipeline to the local socket.
C3_PingPong ==
  /\ NumPongs = PingLines(readyRx)
  /\ IsSuffix(Flatten(pipeIn), postReady)

\* C4: while the ready waiter is still waiting, its buffer holds at most 64 KiB.
C4_BufferCap == readyP = "pending" => ByteLen(buf) <= Cap

Mentions(entry, word) == \E i \in 1..Len(entry[2]) : entry[2][i] = word

\* C5: no log entry contains the secret key.
C5_SecretNeverLogged ==
  secretKey # NoKey => \A entry \in log : ~Mentions(entry, secretKey)

RemoteShut == remoteSocket \in {"ending", "closed"}
LocalShut == localSocket \in {"none", "ending", "closed"}

\* C6: once createTunnel's promise has settled, the remote socket and the local
\* socket, if there is one, are closed or have had end() called.
C6_NoSocketLeftOpen == promise # "pending" => RemoteShut /\ LocalShut

\* C7: a session that was rejected in DIAL, AUTH, AWAIT_READY or LOCAL_DIAL has
\* both sockets closed (or closing) by the time the rejection can be observed.
C7_ClosedBeforeFailed ==
  (promise = "rejected" /\ failedIn \in {"DIAL", "AUTH", "AWAIT_READY", "LOCAL_DIAL"})
     => RemoteShut /\ LocalShut

\* a chunk written by the local server appears among the writes to the remote
LocalBytesSpliced == \E i \in 1..Len(remoteWrites) : remoteWrites[i] \in LocalChunks

\* C8: the local socket exists only after authentication and the ready wait have
\* both resolved; nothing is written to it and nothing is spliced to the remote
\* before its 'connected' event; a failed auth or ready wait opens no local socket.
C8_PhaseOrdering ==
  /\ localSocket # "none" => authP = "resolved" /\ readyP = "resolved"
  /\ (localWrites # <<>> \/ LocalBytesSpliced) => piped
  /\ piped => localSocket \in {"open", "ending", "closed"}
  /\ (authP = "rejected" \/ readyP = "rejected") => localSocket = "none"

C8_Witness ==
  /\ secretKey # NoKey
  /\ piped
  /\ localWrites # <<>>
  /\ LocalBytesSpliced

\* the chunks the pipeline emitted differently from what entered it
Altered == {i \in 1..Len(pipeIn) : localWrites[i] # pipeIn[i]}

\* out is c with the value of the Host header at position m replaced by host
RewrittenAt(c, out, m, host) ==
  \E e \in (m + 8)..Len(c) :
    /\ \A k \in (m + 8)..e : c[k] \notin WS
    /\ e < Len(c) => c[e + 1] \in WS
    /\ out = SubSeq(c, 1, m + 7) \o HostChars(host) \o SubSeq(c, e + 1, Len(c))

\* C9: over a session at most one chunk is altered by the pipeline, none when
\* localHost is localhost or 127.0.0.1; the altered chunk is the first one that
\* holds a match of \r\n[Hh]ost: \S+, and only the value of its first match changes.
C9_AtMostOneRewrite ==
  /\ Len(localWrites) = Len(pipeIn)
  /\ Cardinality(Altered) <= 1
  /\ localHost \in {"localhost", "127.0.0.1"} => Altered = {}
  /\ \A i \in Altered :
       /\ \A j \in 1..(i - 1) : \A m \in 1..Len(pipeIn[j]) : ~HostMatchAt(pipeIn[j], m)
       /\ \E m \in 1..Len(pipeIn[i]) :
            /\ HostMatchAt(pipeIn[i], m)
            /\ \A k \in 1..(m - 1) : ~HostMatchAt(pipeIn[i], k)
            /\ RewrittenAt(pipeIn[i], localWrites[i], m, localHost)

C9_Witness ==
  /\ Altered = {1}
  /\ Len(pipeIn) >= 2
  /\ \E m \in 1..Len(pipeIn[2]) : HostMatchAt(pipeIn[2], m)
  /\ localWrites[2] = pipeIn[2]

\* C10: while the pool runs, every slot has a session in flight, has started one
\* more session than have ended, and tnnlr's promise is pending.
C10_PoolRestarts ==
  pool.pc = "running" =>
    /\ pool.promise = "pending"
    /\ \A i \in 1..NSlots :
         /\ pool.slots[i].running
         /\ pool.slots[i].attempt = pool.slots[i].settled + 1

C10_Witness ==
  /\ pool.pc = "running"
  /\ \E i \in 1..NSlots : pool.slots[i].settled >= 1 /\ pool.slots[i].running
  /\ <<"error", <<"Tunnel attempt ", "1", " errored">>>> \in pool.log
  /\ \E i \in 1..NSlots :
       <<"warn", <<"Tunnel ", AttemptText(i), " attempt ", "1",
                   " finished. Restarting...">>>> \in pool.log

\* C11: with secretKey set, once authentication has failed (an 'Authentication
\* failed' indicator, a socket error or close before an indicator, or the
\* deadline), the session has failed with that very error, the remote socket is
\* closed or closing, and neither the ready wait nor the local dial has begun.
C11_AuthFailureFailsSession ==
  authP = "rejected" =>
    /\ authErr.isError
    /\ promise = "rejected" /\ err = authErr
    /\ RemoteShut
    /\ readyP = "idle" /\ localSocket = "none"

\* the positions of the auth frames among the writes to the remote socket
AuthFrames ==
  {i \in 1..Len(remoteWrites) : \E k \in {NoKey, SecretKey} : remoteWrites[i] = AuthPayload(k)}

\* C12: with secretKey set, from the connect on the first write to the remote
\* socket is the auth frame carrying the secret and no other write is an auth
\* frame; without secretKey no auth frame is ever written, authentication is
\* resolved as soon as the socket is connected, and its listeners and timer
\* never exist (no chunk reaches its onData, it never waits, it never fails).
C12_AuthFrameDiscipline ==
  /\ pc = "dial" => remoteWrites = <<>>
  /\ (secretKey # NoKey /\ pc # "dial") =>
       /\ AuthFrames = {1}
       /\ remoteWrites[1] = AuthPayload(secretKey)
  /\ secretKey = NoKey =>
       /\ AuthFrames = {}
       /\ pc # "dial" => authP = "resolved"
       /\ ~AuthListening(Cur) /\ authRx = <<>> /\ authErr = NoError

C12_Witness ==
  /\ secretKey # NoKey
  /\ remoteWrites = <<AuthPayload(secretKey), PONG, <<"o", "k">> >>

\* the slots for which runPersistentTunnel has been called
SlotsStarted == {i \in 1..NSlots : pool.slots[i].started > 0}

\* C13: for every configured retry count, 0 included, getTunnelEndpoint is
\* called at most retry + 1 times, with one sleep between consecutive calls and
\* none after the last; after the first success no further call is made; when
\* every call has failed tnnlr rejects and no session has been started.
C13_BoundedRetry ==
  /\ pool.calls <= pool.retry + 1
  /\ pool.sleeps = pool.calls - 1
  /\ pool.pc = "sleeping" => pool.calls <= pool.retry
  /\ pool.pc = "running" => pool.calls = pool.attempt + 1
  /\ pool.pc = "failed" => pool.promise = "rejected" /\ SlotsStarted = {}

\* s read as k lines PING, a line READY and the payload: <<k, payload>>, or <<>>
\* when s does not have that form
RECURSIVE AfterAuthLine(_, _)
AfterAuthLine(s, k) ==
  LET ping == PING \o <<"\n">>
      ready == READY \o <<"\n">>
  IN IF IsPrefix(ping, s) THEN AfterAuthLine(SubSeq(s, Len(ping) + 1, Len(s)), k + 1)
     ELSE IF IsPrefix(ready, s) THEN <<k, SubSeq(s, Len(ready) + 1, Len(s))>>
     ELSE <<>>

\* the stream received so far read as AUTH_OK LF, k PING LF, READY LF, payload
Scenario ==
  LET ok == AUTH_OK \o <<"\n">>
  IN IF IsPrefix(ok, rx) THEN AfterAuthLine(SubSeq(rx, Len(ok) + 1, Len(rx)), 0) ELSE <<>>

\* C14: with secretKey set, when the bytes received so far are AUTH_OK LF, k
\* lines PING, READY LF and a payload, however they were split into chunks, and
\* nothing else has happened to the session (no timeout, no error, no close),
\* then the client has written one auth frame and k PONGs, both waits have
\* succeeded, the local dial has begun, and once the local socket is connected
\* it has been sent exactly the payload.
C14_AuthThenReady ==
  (secretKey # NoKey /\ Scenario # <<>> /\ promise = "pending" /\ remoteSocket = "open") =>
    /\ AuthFrames = {1}
    /\ authP = "resolved" /\ readyP = "resolved"
    /\ NumPongs = Scenario[1]
    /\ pc = "local"
    /\ (localSocket = "open" /\ ~UseTransformer(localHost)) => ToLocal = Scenario[2]

\* s has a complete line that trims to READY
RECURSIVE HasReadyLine(_)
HasReadyLine(s) ==
  LET nl == IndexOfLF(s)
  IN nl # 0 /\ (Trim(SubSeq(s, 1, nl - 1)) = READY \/ HasReadyLine(SubSeq(s, nl + 1, Len(s))))

\* C15: while the ready waiter is still waiting and its buffer is within the
\* 64 KiB cap, it has received no complete READY line and has answered every
\* complete PING line it received, whatever other lines came before them.
C15_EveryLineInspected ==
  (readyP = "pending" /\ ByteLen(readyRx) <= Cap) =>
    /\ ~HasReadyLine(readyRx)
    /\ NumPongs = PingLines(readyRx)

\* the callback has seen waitForReady resolve
ReadyObserved == <<"debug", <<"Received READY from remote">>>> \in log

\* C16: once READY has been observed the ready wait stays resolved and the
\* session stays past it: no ready failure is logged or becomes the session's
\* error, whatever the remote socket does later; the PONGs written are at most
\* the PING lines received before READY; and every byte received after READY
\* is payload: the received stream ends with it, verbatim.
C16_NoControlAfterReady ==
  ReadyObserved =>
    /\ readyP = "resolved" /\ pc = "local"
    /\ \A entry \in log : entry[2][1] # "Did not receive READY from remote: "
    /\ err.message \notin {"Socket closed before READY", "Unexpected data before READY"}
    /\ NumPongs <= PingLines(readyRx)
    /\ IsSuffix(postReady, rx)

C16_Witness ==
  /\ ReadyObserved
  /\ IsSuffix(PING \o <<"\n">> \o READY \o <<"\n">>, postReady)
  /\ remoteSocket = "closed"

\* C17: the authentication wait and the ready wait are never active together;
\* the ready wait exists only after authentication has succeeded; a successful
\* authentication stays successful (no auth error, no auth failure logged); and
\* the bytes delivered to the authentication wait followed by the bytes
\* delivered to the ready wait are a prefix of the received stream, so no chunk
\* was delivered to both.
C17_OneWaiterAtATime ==
  /\ ~(AuthListening(Cur) /\ ReadyListening(Cur))
  /\ readyP # "idle" => authP = "resolved"
  /\ authP = "resolved" =>
       /\ authErr = NoError
       /\ <<"error", <<"Remote authentication failed">>>> \notin log
  /\ IsPrefix(authRx \o readyRx, rx)

C17_Witness ==
  /\ authP = "resolved" /\ readyP = "resolved"
  /\ authRx = AUTH_OK \o <<"\n">>
  /\ readyRx = PING \o <<"\n">> \o READY \o <<"\n">>
  /\ remoteSocket = "closed"

\* C18: an error of the local socket while the session is still pending, be it
\* ECONNREFUSED during the dial or another error during the dial or the
\* splicing, rejects the session with that error and leaves the remote socket
\* closed or closing; a close of the local socket without error leaves the
\* session's promise and error as they were.
C18_LocalErrorFailsSession ==
  [][ /\ \A code \in {"ECONNREFUSED", "ECONNRESET"} :
           (promise = "pending" /\ LocalError(code)) =>
              /\ promise' = "rejected"
              /\ err' = SocketError(code)
              /\ failedIn' \in {"LOCAL_DIAL", "SPLICING"}
              /\ remoteSocket' \in {"ending", "closed"}
      /\ LocalClose => (promise' = promise /\ err' = err) ]_vars

C18_Witness ==
  /\ promise = "rejected"
  /\ err = SocketError("ECONNRESET")
  /\ failedIn = "SPLICING"
  /\ localSocket = "closed"
  /\ RemoteShut

\* C19: when the process has exited with code 0 a termination signal was logged,
\* the tasks were told to stop, and the grace timer of Grace ms armed by the
\* signal handler has expired.
C19_GracefulShutdown ==
  main.exitCode = "0" =>
    /\ \E signal \in {"SIGINT", "SIGTERM"} :
         <<"info", <<"Termination signal ", signal,
                     " received - shutting down gracefully">>>> \in main.log
    /\ main.aborted
    /\ main.graceMs = Grace /\ main.graceTimer = "fired"

\* the sessions of slot i that have been started and have not settled
InFlight(i) == pool.slots[i].started - pool.slots[i].settled

\* C20: in every slot at most one session is in flight, the attempt counter
\* equals the number of sessions the slot has started (0 before the first),
\* and a step in which a session of one slot settles starts exactly one new
\* session in that slot and leaves every other slot as it was.
C20_SlotExclusivity ==
  /\ [](\A i \in 1..NSlots :
          /\ InFlight(i) \in {0, 1}
          /\ pool.slots[i].running <=> InFlight(i) = 1
          /\ pool.slots[i].attempt = pool.slots[i].started
          /\ pool.pc # "running" => pool.slots[i].started = 0)
  /\ [][\A i \in 1..NSlots : \A outcome \in SessionOutcomes :
          SessionSettles(i, outcome) =>
            /\ pool.slots[i].settled = pool.slots[i].started - 1
            /\ pool'.slots[i].started = pool.slots[i].started + 1
            /\ pool'.slots[i].attempt = pool.slots[i].attempt + 1
            /\ \A j \in 1..NSlots \ {i} : pool'.slots[j] = pool.slots[j]]_vars

C20_Witness ==
  /\ pool.slots[1].attempt = 2 /\ pool.slots[1].settled = 1
  /\ pool.slots[2].attempt = 1 /\ pool.slots[2].settled = 0
  /\ <<"error", <<"Authentication failed">>>> \in pool.log

====
